---- MODULE Spec2Model ----
(***************************************************************************)
(* intel-oc-mbox (src/src/main.rs): the MSR accessor, the overclocking     *)
(* mailbox client built on MSR 0x150, and the top-level routine that reads *)
(* the flex-ratio register and queries the five domains.                   *)
(*                                                                         *)
(* Numbers.  A u64 does not fit TLC's integers, so an unsigned integer of  *)
(* n bytes is the function [0..n-1 -> 0..255] of its base-256 digits,      *)
(* digit i having weight 256^i.  Shifts, ors and casts are computed on     *)
(* the digits exactly.  A byte buffer (memory, file contents) is a         *)
(* sequence <<b1, ..., b8>> in address order.                              *)
(***************************************************************************)
EXTENDS Integers, Sequences, FiniteSets, TLC

(***************************************************************************)
(* Bounds of the model.                                                    *)
(***************************************************************************)
\* The log keeps this many of the reads of one polling loop that find the
\* busy bit set and marks the last of them when more follow; the loop
\* itself goes on without a bound.
MaxPolls == 2
\* Most request words the other agent writes to the mailbox register.
MaxOther == 1

(***************************************************************************)
(* Program constants.                                                      *)
(***************************************************************************)
\* 0x150
OC_MBOX == 336
\* 0x194
FLEX_RATIO == 404
\* 0x10
CMD_VF_OVERRIDE_READ == 16

(***************************************************************************)
(* State.                                                                  *)
(***************************************************************************)
VARIABLES
    pc,         \* where the program is
    dev,        \* the contents of /dev/cpu/<N>/msr, by cpu and offset
    flexMsr,    \* the Msr handle main opens on FLEX_RATIO
    ocmbox,     \* the Msr handle inside the OcMbox of main
    idx,        \* position of the for loop in domains (1-based)
    args,       \* the arguments of the current cmd call
    cmdRes,     \* what the current cmd call returns
    result,     \* what main returns
    out,        \* standard output, one entry per line
    log,        \* the register accesses of the cmd call in progress, in order
                \* (more: further reads that found the register busy followed;
                \* err: what the accessor returned when it failed)
    wrote,      \* the words the program wrote to the mailbox register
    otherLeft,  \* writes the other agent may still do
    mboxInfo,   \* who put the current contents into the mailbox register
    clobbered   \* the program overwrote a pending request of the other agent

vars == <<pc, dev, flexMsr, ocmbox, idx, args, cmdRes, result, out, log,
          wrote, otherLeft, mboxInfo, clobbered>>

progVars == <<pc, flexMsr, ocmbox, idx, args, cmdRes, result, out, log,
              wrote, clobbered>>

(***************************************************************************)
(* Unsigned integers as base-256 digits.                                   *)
(***************************************************************************)
Byte == 0..255

Pow2(n) == 2 ^ n

\* x as u64, for x: u8
U8AsU64(x) == [i \in 0..7 |-> IF i = 0 THEN x ELSE 0]

\* x as u64, for x: u32
U32AsU64(x) == [i \in 0..7 |-> IF i <= 3 THEN x[i] ELSE 0]

\* x as u32, for x: u64 (truncation)
U64AsU32(x) == [i \in 0..3 |-> x[i]]

\* x as u8, for x: u64 (truncation)
U64AsU8(x) == x[0]

ZeroU64 == [i \in 0..7 |-> 0]

ZeroU32 == [i \in 0..3 |-> 0]

Digit(x, i) == IF i \in DOMAIN x THEN x[i] ELSE 0

\* x << n on u64, 0 <= n < 64
Shl(x, n) ==
    LET k == n \div 8
        b == n % 8
    IN  [i \in 0..7 |->
            ((Digit(x, i - k) * Pow2(b)) % 256) + (Digit(x, i - k - 1) \div Pow2(8 - b))]

\* x >> n on u64, 0 <= n < 64
Shr(x, n) ==
    LET k == n \div 8
        b == n % 8
    IN  [i \in 0..7 |->
            (Digit(x, i + k) \div Pow2(b)) + ((Digit(x, i + k + 1) * Pow2(8 - b)) % 256)]

RECURSIVE Or8(_, _)
Or8(a, b) ==
    IF a = 0 THEN b
    ELSE IF b = 0 THEN a
    ELSE 2 * Or8(a \div 2, b \div 2) + (IF a % 2 = 1 \/ b % 2 = 1 THEN 1 ELSE 0)

RECURSIVE And8(_, _)
And8(a, b) ==
    IF a = 0 \/ b = 0 THEN 0
    ELSE 2 * And8(a \div 2, b \div 2) + (IF a % 2 = 1 /\ b % 2 = 1 THEN 1 ELSE 0)

\* x | y on u64
BitOr(x, y) == [i \in 0..7 |-> Or8(x[i], y[i])]

\* x & y on u64
BitAnd(x, y) == [i \in 0..7 |-> And8(x[i], y[i])]

\* bit n of x, as 0 or 1
BitOf(x, n) == (x[n \div 8] \div Pow2(n % 8)) % 2

\* u64::from_le_bytes(buf)
FromLeBytes(buf) == [i \in 0..7 |-> buf[i + 1]]

\* value.to_le_bytes()
ToLeBytes(value) == <<value[0], value[1], value[2], value[3],
                      value[4], value[5], value[6], value[7]>>

OneU64 == U8AsU64(1)

\* a lock mask one bit too high
FlexLockBit21 == Shl(OneU64, 21)

\* 1 << 20
FLEX_RATIO_OC_LOCK == Shl(OneU64, 20)

(***************************************************************************)
(* Formatting (std::fmt).  A formatted text is a sequence of strings.      *)
(***************************************************************************)
DecDigit(n) == <<"0", "1", "2", "3", "4", "5", "6", "7", "8", "9">>[n + 1]

HexDigit(n) == <<"0", "1", "2", "3", "4", "5", "6", "7",
                 "8", "9", "a", "b", "c", "d", "e", "f">>[n + 1]

\* "{}" of a u8 or a small usize: decimal, no leading zeros
RECURSIVE Display(_)
Display(n) == IF n < 10 THEN <<DecDigit(n)>>
              ELSE Append(Display(n \div 10), DecDigit(n % 10))

\* "{:08x}" of a u32: eight lower-case hex digits, most significant first
Hex08(d) == <<HexDigit(d[3] \div 16), HexDigit(d[3] % 16),
              HexDigit(d[2] \div 16), HexDigit(d[2] % 16),
              HexDigit(d[1] \div 16), HexDigit(d[1] % 16),
              HexDigit(d[0] \div 16), HexDigit(d[0] % 16)>>

(***************************************************************************)
(* std::io::Result and std::io::Error.                                     *)
(***************************************************************************)
Ok(v) == [tag |-> "Ok", val |-> v]

Err(e) == [tag |-> "Err", err |-> e]

None == [tag |-> "None"]

Unit == <<>>

\* an error of the operating system, by the call that failed
OsError(call) == [repr |-> "Os", call |-> call]

\* an error of the standard library itself (read_exact, write_all)
SimpleError(kind) == [repr |-> "Simple", kind |-> kind]

\* io::Error::new(kind, text)
CustomError(kind, text) == [repr |-> "Custom", kind |-> kind, text |-> text]

(***************************************************************************)
(* The register device /dev/cpu/<N>/msr: at offset r it holds the eight    *)
(* bytes of register r, least significant first.                           *)
(***************************************************************************)
Cpus == {0, 1}

\* The offsets that answer: the two registers of the program, and the
\* offsets a handle would reach 8 bytes further on.
Regs == {OC_MBOX, OC_MBOX + 8, FLEX_RATIO, FLEX_RATIO + 8}

\* the eight bytes the device transfers for a register value
RegBytes(v) == <<v[0], v[1], v[2], v[3], v[4], v[5], v[6], v[7]>>

\* the register value the device stores for eight bytes
BytesReg(b) == [i \in 0..7 |-> b[i + 1]]

\* how one accessor call can go: every system call succeeds, the seek
\* fails, the transfer fails, the transfer is short
IoOutcomes == {"ok", "seek", "xfer", "short"}

(***************************************************************************)
(* mod msr: struct Msr and its methods.                                    *)
(***************************************************************************)
NoMsr == [st |-> "none", cpu |-> 0, num |-> 0, pos |-> 0]

\* Msr::with_cpu(cpu, num) when the open succeeds
MsrWithCpu(cpu, num) == [st |-> "open", cpu |-> cpu, num |-> num, pos |-> 0]

\* a seek done on the first access only, the position trusted afterwards
MsrSeekOnce(h, io) ==
    IF io = "seek" THEN [res |-> Err(OsError("seek")), h |-> h]
    ELSE [res |-> Ok(Unit),
          h |-> IF h.pos = 0 THEN [h EXCEPT !.pos = h.num] ELSE h]

\* Msr::seek: the handle after the seek, or the error
MsrSeek(h, io) ==
    IF io = "seek" THEN [res |-> Err(OsError("seek")), h |-> h]
    ELSE [res |-> Ok(Unit), h |-> [h EXCEPT !.pos = h.num]]

\* Msr::read on device contents d: the result and the handle afterwards
MsrRead(h, d, io) ==
    LET s == MsrSeek(h, io)
    IN  IF s.res.tag = "Err" THEN s
        ELSE IF io = "xfer" \/ s.h.pos \notin Regs
             THEN [res |-> Err(OsError("read")), h |-> s.h]
        ELSE IF io = "short"
             THEN [res |-> Err(SimpleError("UnexpectedEof")), h |-> s.h]
        ELSE [res |-> Ok(FromLeBytes(RegBytes(d[s.h.cpu][s.h.pos]))),
              h |-> [s.h EXCEPT !.pos = s.h.pos + 8]]

\* Msr::write on device contents d: the result, the handle and the device
\* contents afterwards
MsrWrite(h, d, value, io) ==
    LET s == MsrSeek(h, io)
    IN  IF s.res.tag = "Err" THEN [res |-> s.res, h |-> s.h, d |-> d]
        ELSE IF io = "xfer" \/ s.h.pos \notin Regs
             THEN [res |-> Err(OsError("write")), h |-> s.h, d |-> d]
        ELSE IF io = "short"
             THEN [res |-> Err(SimpleError("WriteZero")), h |-> s.h, d |-> d]
        ELSE [res |-> Ok(Unit),
              h |-> [s.h EXCEPT !.pos = s.h.pos + 8],
              d |-> [d EXCEPT ![s.h.cpu][s.h.pos] = BytesReg(ToLeBytes(value))]]

(***************************************************************************)
(* mod oc_mbox: Domain, OcMbox::poll_result and OcMbox::cmd.               *)
(***************************************************************************)
\* enum Domain, #[repr(u8)]: the discriminants
DomainU8 == [IaCore |-> 0, GtSlices |-> 1, CboLlcRing |-> 2,
             GtUnslice |-> 3, SystemAgent |-> 4]

\* let r = val >> 63
BusyOf(val) == Shr(val, 63)

\* let c = (val >> 32) as u16
StatusOfU16(val) == Shr(val, 32)[0] + 256 * Shr(val, 32)[1]

\* let c = (val >> 32) as u8
StatusOf(val) == U64AsU8(Shr(val, 32))

\* let d = val as u32
DataOf(val) == U64AsU32(val)

\* the match on c with the second arm off by one
ErrInfoOffByOne(c) ==
    IF c = 1 THEN <<"Overclocking is locked">>
    ELSE IF c = 30 THEN <<"Unrecognized command">>
    ELSE Display(c)

\* the match on c: the text the error carries
ErrInfo(c) ==
    IF c = 1 THEN <<"Overclocking is locked">>
    ELSE IF c = 31 THEN <<"Unrecognized command">>
    ELSE Display(c)

\* a poll_result that reports a nonzero status as a failed read
DecodeAsReadError(c, d) ==
    IF c = 0 THEN Ok(d) ELSE Err(OsError("read"))

\* the inner result poll_result returns for status c and data d
Decode(c, d) ==
    IF c = 0 THEN Ok(d)
    ELSE Err(CustomError("Other", <<"Mailbox returned error: ">> \o ErrInfo(c)))

\* poll_result without the test of r: whatever is read is decoded
PollIterNoBusyCheck(val) ==
    [done |-> TRUE, inner |-> Decode(StatusOf(val), DataOf(val))]

\* one turn of the loop of poll_result on the value read: return the inner
\* result, or go round again
PollIter(val) ==
    IF BusyOf(val) = ZeroU64
    THEN [done |-> TRUE, inner |-> Decode(StatusOf(val), DataOf(val))]
    ELSE [done |-> FALSE, inner |-> None]

\* the request word with param1 shifted like command
MsgParam1At32(command, param1, param2, data) ==
    BitOr(BitOr(BitOr(BitOr(U32AsU64(data),
                            Shl(U8AsU64(command), 32)),
                      Shl(U8AsU64(param1), 32)),
                Shl(U8AsU64(param2), 48)),
          Shl(OneU64, 63))

\* the request word cmd builds
Msg(command, param1, param2, data) ==
    BitOr(BitOr(BitOr(BitOr(U32AsU64(data),
                            Shl(U8AsU64(command), 32)),
                      Shl(U8AsU64(param1), 40)),
                Shl(U8AsU64(param2), 48)),
          Shl(OneU64, 63))

\* a cmd that tries a failed register access again
IoFailedRetry(r) == [pc |-> pc, res |-> None]

\* the ? on a register access of cmd that failed with r: cmd returns r
IoFailed(r) == [pc |-> "ret", res |-> r]

\* a cmd that returns the error its first poll_result decoded
AfterDrainPropagate(r) ==
    IF r.tag = "Err" THEN [pc |-> "ret", res |-> r]
    ELSE [pc |-> "write", res |-> None]

\* a cmd that goes from the drain straight to the await loop
AfterDrainSkipWrite(r) == [pc |-> "await", res |-> None]

\* cmd after its first poll_result returned inner result r: the result is
\* dropped and cmd goes on to the write
AfterDrain(r) == [pc |-> "write", res |-> None]

\* cmd polling once more after its second poll_result returned
AfterAwaitAgain(r) == [pc |-> "await", res |-> None]

\* cmd after its second poll_result returned inner result r: r is the
\* result of cmd
AfterAwait(r) == [pc |-> "ret", res |-> r]

(***************************************************************************)
(* fn main.                                                                *)
(***************************************************************************)
\* the array with two domains exchanged
domainsSwapped == <<"IaCore", "CboLlcRing", "GtSlices", "GtUnslice", "SystemAgent">>

\* let domains = [...]
domains == <<"IaCore", "GtSlices", "CboLlcRing", "GtUnslice", "SystemAgent">>

\* the arguments of the cmd call for a domain
CmdArgs(domain) == [command |-> CMD_VF_OVERRIDE_READ, param1 |-> DomainU8[domain],
                    param2 |-> 0, data |-> ZeroU32]

\* println!("Overclocking lock: {}", (flex_ratio & FLEX_RATIO_OC_LOCK) != 0)
LockLine(flex_ratio) ==
    <<"Overclocking lock: ",
      IF BitAnd(flex_ratio, FLEX_RATIO_OC_LOCK) # ZeroU64 THEN "true" ELSE "false">>

\* println!("domain {}: {:08x}", domain as u8, data)
DomainLine(domain, data) ==
    <<"domain ">> \o Display(DomainU8[domain]) \o <<": ">> \o Hex08(data)

\* the exit status of the process for the value main returns
ExitCode(r) == IF r.tag = "Ok" THEN 0 ELSE 1

(***************************************************************************)
(* The environment: what the registers hold, what the mailbox hardware     *)
(* answers, what another agent writes, how the module loader ends.         *)
(***************************************************************************)
MkU32(b0, b1, b2, b3) == [i \in 0..3 |-> <<b0, b1, b2, b3>>[i + 1]]

\* a register value with the busy bit clear: data d in bits 0-31, status st
\* in bits 32-39, hi = <<bits 40-47, bits 48-55, bits 56-62>>
Resp(st, d, hi) ==
    [i \in 0..7 |-> IF i <= 3 THEN d[i] ELSE IF i = 4 THEN st ELSE hi[i - 4]]

\* data and upper bits of the responses the hardware gives
Payloads == {[d |-> MkU32(120, 86, 52, 18), hi |-> <<0, 0, 0>>],
             [d |-> MkU32(255, 255, 255, 255), hi |-> <<171, 205, 127>>]}

\* the status bytes the hardware gives during a whole run
RunStatuses == {0, 1, 2, 31, 255}

\* every status byte
AllStatuses == Byte

\* the request words of the other agent (busy bit set)
OtherWords == {Msg(17, 0, 0, MkU32(1, 0, 0, 0))}

\* what the mailbox register holds when the program starts: nothing, a
\* leftover response, a leftover error response, a request still pending
InitMbox == {ZeroU64,
             Resp(0, MkU32(1, 2, 3, 4), <<0, 0, 0>>),
             Resp(1, ZeroU32, <<0, 0, 0>>),
             Msg(16, 0, 0, ZeroU32)}

AllOnesU64 == [i \in 0..7 |-> 255]

\* what the flex-ratio register holds: bit 20 alone, nothing, everything
\* but bit 20, everything
FlexValues == {FLEX_RATIO_OC_LOCK, ZeroU64,
               [AllOnesU64 EXCEPT ![2] = 239], AllOnesU64}

\* the contents of the offsets next to the two registers
Neighbour == [i \in 0..7 |-> 90]

InitDev(mbox, flex) ==
    [c \in Cpus |->
        [r \in Regs |->
            IF c # 0 THEN Neighbour
            ELSE IF r = OC_MBOX THEN mbox
            ELSE IF r = FLEX_RATIO THEN flex
            ELSE Neighbour]]

\* how `modprobe msr` can end: it cannot be started, it exits with 0, it
\* exits with 1, a signal kills it
ModprobeOutcomes == {"spawn_err", "exit0", "exit1", "signal"}

\* "{}" of the ExitStatus
StatusText(o) == IF o = "signal" THEN <<"signal: ", "9">>
                 ELSE <<"exit status: ", IF o = "exit0" THEN "0" ELSE "1">>

(***************************************************************************)
(* The state at the start, and what is read off it.                        *)
(***************************************************************************)
Mbox == dev[0][OC_MBOX]

NoArgs == [command |-> 0, param1 |-> 0, param2 |-> 0, data |-> ZeroU32]

\* cmd is in progress.  The program touches the mailbox register nowhere
\* else, so the steps of the environment are taken here.
InCmd == pc \in {"drain", "write", "await"}

\* the reads of the given polling loop that found the busy bit set
BusyReads(phase) ==
    Len(SelectSeq(log, LAMBDA e : e.op = "read" /\ e.phase = phase /\ e.ok
                                  /\ BitOf(e.val, 63) = 1))

Init ==
    /\ pc = "modprobe"
    /\ \E mbox \in InitMbox, flex \in FlexValues : dev = InitDev(mbox, flex)
    /\ flexMsr = NoMsr
    /\ ocmbox = NoMsr
    /\ idx = 1
    /\ args = NoArgs
    /\ cmdRes = None
    /\ result = None
    /\ out = <<>>
    /\ log = <<>>
    /\ wrote = <<>>
    /\ otherLeft = MaxOther
    /\ mboxInfo = [who |-> "init", req |-> ZeroU64, from |-> "init"]
    /\ clobbered = FALSE

(***************************************************************************)
(* main, line by line.                                                     *)
(***************************************************************************)
\* main without the test of status.success()
ModprobeIgnoreStatus(o) ==
    /\ pc = "modprobe"
    /\ IF o = "spawn_err"
       THEN /\ result' = Err(OsError("spawn"))
            /\ pc' = "exit"
       ELSE /\ pc' = "open_flex"
            /\ UNCHANGED result
    /\ UNCHANGED <<dev, flexMsr, ocmbox, idx, args, cmdRes, out, log, wrote,
                   otherLeft, mboxInfo, clobbered>>

\* Command::new("modprobe").arg("msr").status()? and the test of success()
Modprobe(o) ==
    /\ pc = "modprobe"
    /\ IF o = "spawn_err"
       THEN /\ result' = Err(OsError("spawn"))
            /\ pc' = "exit"
       ELSE IF o # "exit0"
       THEN /\ result' = Err(CustomError("Other",
                             <<"modprobe exited with status: ">> \o StatusText(o)))
            /\ pc' = "exit"
       ELSE /\ pc' = "open_flex"
            /\ UNCHANGED result
    /\ UNCHANGED <<dev, flexMsr, ocmbox, idx, args, cmdRes, out, log, wrote,
                   otherLeft, mboxInfo, clobbered>>

\* msr::Msr::with_cpu(0, msr::FLEX_RATIO)?
OpenFlex(okOpen) ==
    /\ pc = "open_flex"
    /\ IF okOpen
       THEN /\ flexMsr' = MsrWithCpu(0, FLEX_RATIO)
            /\ pc' = "read_flex"
            /\ UNCHANGED result
       ELSE /\ result' = Err(OsError("open"))
            /\ pc' = "exit"
            /\ UNCHANGED flexMsr
    /\ UNCHANGED <<dev, ocmbox, idx, args, cmdRes, out, log, wrote,
                   otherLeft, mboxInfo, clobbered>>

\* a main that refuses to go on when the lock bit is set
ReadFlexGated(io) ==
    /\ pc = "read_flex"
    /\ LET r == MsrRead(flexMsr, dev, io)
       IN  /\ flexMsr' = [r.h EXCEPT !.st = "closed"]
           /\ IF r.res.tag = "Err"
              THEN /\ result' = r.res
                   /\ pc' = "exit"
                   /\ UNCHANGED out
              ELSE /\ out' = Append(out, LockLine(r.res.val))
                   /\ IF BitAnd(r.res.val, FLEX_RATIO_OC_LOCK) # ZeroU64
                      THEN /\ result' = Err(CustomError("Other",
                                                <<"Overclocking is locked">>))
                           /\ pc' = "exit"
                      ELSE /\ pc' = "open_mbox"
                           /\ UNCHANGED result
    /\ UNCHANGED <<dev, ocmbox, idx, args, cmdRes, log, wrote,
                   otherLeft, mboxInfo, clobbered>>

\* .read()? on the handle, the println! of the lock status, and the drop
\* of the temporary handle at the end of the statement
ReadFlex(io) ==
    /\ pc = "read_flex"
    /\ LET r == MsrRead(flexMsr, dev, io)
       IN  /\ flexMsr' = [r.h EXCEPT !.st = "closed"]
           /\ IF r.res.tag = "Err"
              THEN /\ result' = r.res
                   /\ pc' = "exit"
                   /\ UNCHANGED out
              ELSE /\ out' = Append(out, LockLine(r.res.val))
                   /\ pc' = "open_mbox"
                   /\ UNCHANGED result
    /\ UNCHANGED <<dev, ocmbox, idx, args, cmdRes, log, wrote,
                   otherLeft, mboxInfo, clobbered>>

\* a mailbox client bound to CPU 1
OpenMboxCpu1(okOpen) ==
    /\ pc = "open_mbox"
    /\ IF okOpen
       THEN /\ ocmbox' = MsrWithCpu(1, OC_MBOX)
            /\ pc' = "loop"
            /\ UNCHANGED result
       ELSE /\ result' = Err(OsError("open"))
            /\ pc' = "exit"
            /\ UNCHANGED ocmbox
    /\ UNCHANGED <<dev, flexMsr, idx, args, cmdRes, out, log, wrote,
                   otherLeft, mboxInfo, clobbered>>

\* oc_mbox::OcMbox::with_cpu(0)?
OpenMbox(okOpen) ==
    /\ pc = "open_mbox"
    /\ IF okOpen
       THEN /\ ocmbox' = MsrWithCpu(0, OC_MBOX)
            /\ pc' = "loop"
            /\ UNCHANGED result
       ELSE /\ result' = Err(OsError("open"))
            /\ pc' = "exit"
            /\ UNCHANGED ocmbox
    /\ UNCHANGED <<dev, flexMsr, idx, args, cmdRes, out, log, wrote,
                   otherLeft, mboxInfo, clobbered>>

\* a loop over the first four domains only
LoopHeadFour ==
    /\ pc = "loop"
    /\ IF idx <= 4
       THEN /\ args' = CmdArgs(domains[idx])
            /\ cmdRes' = None
            /\ log' = <<>>
            /\ pc' = "drain"
            /\ UNCHANGED <<result, ocmbox>>
       ELSE /\ result' = Ok(Unit)
            /\ ocmbox' = [ocmbox EXCEPT !.st = "closed"]
            /\ pc' = "exit"
            /\ UNCHANGED <<args, cmdRes, log>>
    /\ UNCHANGED <<dev, flexMsr, idx, out, wrote, otherLeft, mboxInfo, clobbered>>

\* the head of the for loop: call cmd for the next domain, or return Ok(())
LoopHead ==
    /\ pc = "loop"
    /\ IF idx <= Len(domains)
       THEN /\ args' = CmdArgs(domains[idx])
            /\ cmdRes' = None
            /\ log' = <<>>
            /\ pc' = "drain"
            /\ UNCHANGED <<result, ocmbox>>
       ELSE /\ result' = Ok(Unit)
            /\ ocmbox' = [ocmbox EXCEPT !.st = "closed"]
            /\ pc' = "exit"
            /\ UNCHANGED <<args, cmdRes, log>>
    /\ UNCHANGED <<dev, flexMsr, idx, out, wrote, otherLeft, mboxInfo, clobbered>>

\* a loop that asks the same domain again when the mailbox answered with
\* an error status
CmdReturnRetry ==
    /\ pc = "ret"
    /\ IF cmdRes.tag = "Ok"
       THEN /\ out' = Append(out, DomainLine(domains[idx], cmdRes.val))
            /\ idx' = idx + 1
            /\ pc' = "loop"
            /\ UNCHANGED <<result, ocmbox>>
       ELSE IF cmdRes.err.repr = "Custom"
       THEN /\ pc' = "loop"
            /\ UNCHANGED <<result, ocmbox, out, idx>>
       ELSE /\ result' = cmdRes
            /\ ocmbox' = [ocmbox EXCEPT !.st = "closed"]
            /\ pc' = "exit"
            /\ UNCHANGED <<out, idx>>
    /\ log' = <<>>
    /\ UNCHANGED <<dev, flexMsr, args, cmdRes, wrote, otherLeft,
                   mboxInfo, clobbered>>

\* a loop that skips a domain whose exchange failed and goes on
CmdReturnGoOn ==
    /\ pc = "ret"
    /\ IF cmdRes.tag = "Ok"
       THEN out' = Append(out, DomainLine(domains[idx], cmdRes.val))
       ELSE UNCHANGED out
    /\ idx' = idx + 1
    /\ pc' = "loop"
    /\ log' = <<>>
    /\ UNCHANGED <<dev, flexMsr, ocmbox, args, cmdRes, result, wrote, otherLeft,
                   mboxInfo, clobbered>>

\* the ? on the value cmd returned and the println! of the domain line
CmdReturn ==
    /\ pc = "ret"
    /\ IF cmdRes.tag = "Ok"
       THEN /\ out' = Append(out, DomainLine(domains[idx], cmdRes.val))
            /\ idx' = idx + 1
            /\ pc' = "loop"
            /\ UNCHANGED <<result, ocmbox>>
       ELSE /\ result' = cmdRes
            /\ ocmbox' = [ocmbox EXCEPT !.st = "closed"]
            /\ pc' = "exit"
            /\ UNCHANGED <<out, idx>>
    /\ log' = <<>>
    /\ UNCHANGED <<dev, flexMsr, args, cmdRes, wrote, otherLeft,
                   mboxInfo, clobbered>>

(***************************************************************************)
(* OcMbox::cmd, one register access per step.                              *)
(***************************************************************************)
\* one turn of the loop of poll_result: the read and what follows from it
\* (r is what self.msr.read() returned, it what the turn makes of val)
PollStep(io) ==
    /\ \E r \in {MsrRead(ocmbox, dev, io)} :
           /\ ocmbox' = r.h
           /\ IF r.res.tag = "Err"
              THEN /\ log' = Append(log, [op |-> "read", phase |-> pc,
                                          ok |-> FALSE, val |-> ZeroU64,
                                          more |-> FALSE, err |-> r.res])
                   /\ cmdRes' = IoFailed(r.res).res
                   /\ pc' = IoFailed(r.res).pc
              ELSE \E it \in {PollIter(r.res.val)} :
                   LET nx == IF pc = "drain" THEN AfterDrain(it.inner)
                             ELSE AfterAwait(it.inner)
                       entry == [op |-> "read", phase |-> pc, ok |-> TRUE,
                                 val |-> r.res.val, more |-> FALSE, err |-> None]
                   IN  /\ log' = IF BitOf(r.res.val, 63) = 1
                                    /\ BusyReads(pc) >= MaxPolls
                                 THEN [log EXCEPT ![Len(log)].more = TRUE]
                                 ELSE Append(log, entry)
                       /\ IF it.done
                          THEN /\ pc' = nx.pc
                               /\ cmdRes' = nx.res
                          ELSE /\ pc' = pc
                               /\ UNCHANGED cmdRes
    /\ UNCHANGED <<dev, flexMsr, idx, args, result, out, wrote, otherLeft,
                   mboxInfo, clobbered>>

\* a loop that gives up with an error after MaxPolls busy reads
PollGiveUp(io) ==
    /\ pc \in {"drain", "await"}
    /\ IF BusyReads(pc) >= MaxPolls
       THEN /\ pc' = "ret"
            /\ cmdRes' = Err(CustomError("TimedOut", <<"Mailbox busy">>))
            /\ UNCHANGED <<dev, flexMsr, ocmbox, idx, args, result, out, log,
                           wrote, otherLeft, mboxInfo, clobbered>>
       ELSE PollStep(io)

\* one turn of the loop of poll_result, in the drain (first) or the await
\* (second) call of cmd; nothing bounds the number of turns
Poll(io) ==
    /\ pc \in {"drain", "await"}
    /\ PollStep(io)

\* the request word is built and written: self.msr.write(msg)?
WriteStep(io) ==
    /\ LET msg == Msg(args.command, args.param1, args.param2, args.data)
           w == MsrWrite(ocmbox, dev, msg, io)
       IN  /\ ocmbox' = w.h
           /\ dev' = w.d
           /\ IF w.res.tag = "Err"
              THEN /\ log' = Append(log, [op |-> "write", phase |-> "write",
                                          ok |-> FALSE, val |-> msg,
                                          more |-> FALSE, err |-> w.res])
                   /\ cmdRes' = IoFailed(w.res).res
                   /\ pc' = IoFailed(w.res).pc
                   /\ UNCHANGED <<wrote, mboxInfo, clobbered>>
              ELSE /\ log' = Append(log, [op |-> "write", phase |-> "write",
                                          ok |-> TRUE, val |-> msg,
                                          more |-> FALSE, err |-> None])
                   /\ wrote' = Append(wrote, w.d[0][OC_MBOX])
                   /\ clobbered' = (clobbered \/ (mboxInfo.who = "other"
                                                   /\ BitOf(Mbox, 63) = 1))
                   /\ mboxInfo' = [who |-> "self", req |-> ZeroU64, from |-> "self"]
                   /\ pc' = "await"
                   /\ UNCHANGED cmdRes
    /\ UNCHANGED <<flexMsr, idx, args, result, out, otherLeft>>

\* a cmd that looks at the register once more and refuses to write over
\* a pending request
WriteMsgIfIdle(io) ==
    /\ pc = "write"
    /\ IF BitOf(Mbox, 63) = 1
       THEN /\ pc' = "ret"
            /\ cmdRes' = Err(CustomError("Other", <<"Mailbox in use">>))
            /\ UNCHANGED <<dev, flexMsr, ocmbox, idx, args, result, out, log,
                           wrote, otherLeft, mboxInfo, clobbered>>
       ELSE WriteStep(io)

\* cmd between its two poll_result calls: it writes whatever the register
\* holds by now
WriteMsg(io) ==
    /\ pc = "write"
    /\ WriteStep(io)

(***************************************************************************)
(* The environment's steps.                                                *)
(***************************************************************************)
\* the hardware answers the pending request: a request of this program with
\* one of the given status bytes, any other request with one of RunStatuses
HwRespond(statuses) ==
    /\ InCmd
    /\ BitOf(Mbox, 63) = 1
    /\ \E st \in (IF mboxInfo.who = "self" THEN statuses ELSE RunStatuses),
          p \in Payloads :
          dev' = [dev EXCEPT ![0][OC_MBOX] = Resp(st, p.d, p.hi)]
    /\ mboxInfo' = [who |-> "hw", req |-> Mbox, from |-> mboxInfo.who]
    /\ UNCHANGED <<progVars, otherLeft>>

\* another agent writes a request of its own to the mailbox register
OtherWrite ==
    /\ InCmd
    /\ otherLeft > 0
    /\ \E w \in OtherWords : dev' = [dev EXCEPT ![0][OC_MBOX] = w]
    /\ otherLeft' = otherLeft - 1
    /\ mboxInfo' = [who |-> "other", req |-> ZeroU64, from |-> "other"]
    /\ UNCHANGED progVars

(***************************************************************************)
(* The whole run, on a machine where nothing else uses the mailbox.        *)
(***************************************************************************)
Next ==
    \/ \E o \in ModprobeOutcomes : Modprobe(o)
    \/ \E okOpen \in BOOLEAN : OpenFlex(okOpen)
    \/ \E io \in IoOutcomes : ReadFlex(io)
    \/ \E okOpen \in BOOLEAN : OpenMbox(okOpen)
    \/ LoopHead
    \/ \E io \in IoOutcomes : Poll(io)
    \/ \E io \in IoOutcomes : WriteMsg(io)
    \/ CmdReturn
    \/ HwRespond(RunStatuses)

Spec == Init /\ [][Next]_vars

(***************************************************************************)
(* One call of cmd, with arguments of any kind, from its first step to its *)
(* return (pc = "ret").                                                    *)
(***************************************************************************)
\* the arguments tried: all ones, and four distinct values
CallArgs == {[command |-> 255, param1 |-> 255, param2 |-> 255,
              data |-> MkU32(255, 255, 255, 255)],
             [command |-> 18, param1 |-> 52, param2 |-> 86,
              data |-> MkU32(1, 2, 3, 4)]}

InitCall(argSet, startPc) ==
    /\ pc = startPc
    /\ \E mbox \in InitMbox : dev = InitDev(mbox, ZeroU64)
    /\ flexMsr = NoMsr
    /\ ocmbox = MsrWithCpu(0, OC_MBOX)
    /\ idx = 1
    /\ args \in argSet
    /\ cmdRes = None
    /\ result = None
    /\ out = <<>>
    /\ log = <<>>
    /\ wrote = <<>>
    /\ otherLeft = MaxOther
    /\ mboxInfo = [who |-> "init", req |-> ZeroU64, from |-> "init"]
    /\ clobbered = FALSE

\* the mailbox is used by this call alone; the hardware gives any status
InitCmd == InitCall({CmdArgs("IaCore"), CmdArgs("SystemAgent")}, "drain")

NextCmd ==
    \/ \E io \in IoOutcomes : Poll(io)
    \/ \E io \in IoOutcomes : WriteMsg(io)
    \/ HwRespond(AllStatuses)

SpecCmd == InitCmd /\ [][NextCmd]_vars

\* the mailbox is shared with another agent
InitShared == InitCall(CallArgs, "drain")

NextShared ==
    \/ \E io \in IoOutcomes : Poll(io)
    \/ \E io \in IoOutcomes : WriteMsg(io)
    \/ HwRespond(RunStatuses)
    \/ OtherWrite

SpecShared == InitShared /\ [][NextShared]_vars

(***************************************************************************)
(* The write of cmd alone, for arguments over their whole ranges: the call *)
(* has just read an idle register in its drain loop.                       *)
(***************************************************************************)
EdgeBytes == {0, 85, 255}

EdgeData == {ZeroU32, MkU32(120, 86, 52, 18), MkU32(255, 255, 255, 255)}

\* every value in B of one byte of the arguments, the rest at the edges
EncArgs(B) ==
    {[command |-> c, param1 |-> p1, param2 |-> p2, data |-> d] :
        c \in B, p1 \in EdgeBytes, p2 \in EdgeBytes, d \in EdgeData}
    \cup
    {[command |-> c, param1 |-> p1, param2 |-> p2, data |-> d] :
        c \in EdgeBytes, p1 \in B, p2 \in EdgeBytes, d \in EdgeData}
    \cup
    {[command |-> c, param1 |-> p1, param2 |-> p2, data |-> d] :
        c \in EdgeBytes, p1 \in EdgeBytes, p2 \in B, d \in EdgeData}
    \cup
    {[command |-> c, param1 |-> p, param2 |-> p, data |-> d] :
        c \in EdgeBytes, p \in EdgeBytes,
        d \in {MkU32(b, 85, 0, 255) : b \in B}
              \cup {MkU32(255, b, 85, 0) : b \in B}
              \cup {MkU32(0, 255, b, 85) : b \in B}
              \cup {MkU32(85, 0, 255, b) : b \in B}}

InitEnc ==
    LET d0 == InitDev(ZeroU64, ZeroU64)
        r == MsrRead(MsrWithCpu(0, OC_MBOX), d0, "ok")
    IN  /\ pc = "write"
        /\ dev = d0
        /\ flexMsr = NoMsr
        /\ ocmbox = r.h
        /\ idx = 1
        /\ args \in EncArgs(Byte)
        /\ cmdRes = None
        /\ result = None
        /\ out = <<>>
        /\ log = <<[op |-> "read", phase |-> "drain", ok |-> TRUE,
                    val |-> r.res.val, more |-> FALSE, err |-> None]>>
        /\ wrote = <<>>
        /\ otherLeft = MaxOther
        /\ mboxInfo = [who |-> "init", req |-> ZeroU64, from |-> "init"]
        /\ clobbered = FALSE

NextEnc == \E io \in IoOutcomes : WriteMsg(io)

SpecEnc == InitEnc /\ [][NextEnc]_vars

(***************************************************************************)
(* Properties.  The register layout they use is the documented one, read   *)
(* off the digits directly: bit 63 is the top bit of digit 7, the status   *)
(* byte is digit 4, the data are digits 0-3.                               *)
(***************************************************************************)
BusyBit(w) == w[7] \div 128

StatusByte(w) == w[4]

Low32(w) == [i \in 0..3 |-> w[i]]

LastOf(sq) == sq[Len(sq)]

IsIoError(r) == r.tag = "Err" /\ r.err.repr \in {"Os", "Simple"}

IsResponse(r) == r.tag = "Ok" \/ (r.tag = "Err" /\ r.err.repr = "Custom")

\* the reads of the second poll_result of the call in progress
AwaitReads == SelectSeq(log, LAMBDA e : e.phase = "await")

\* r is what the documented layout makes of the response word w
Decodes(w, r) ==
    /\ IsResponse(r)
    /\ r.tag = "Ok" => StatusByte(w) = 0 /\ r.val = Low32(w)
    /\ r.tag = "Err" => StatusByte(w) # 0

\* C1: every word the program writes to the mailbox register has bit 63
\* set; a call of cmd returns a response only when the last access was a
\* read that came after the write and found bit 63 clear, and the response
\* is decoded from that read; after a read that found bit 63 set the call
\* has returned nothing.
C1_BusyBitProtocol ==
    /\ \A i \in 1..Len(wrote) : BusyBit(wrote[i]) = 1
    /\ (pc = "ret" /\ IsResponse(cmdRes)) =>
          /\ Len(log) >= 2
          /\ LastOf(log).op = "read" /\ LastOf(log).ok
          /\ LastOf(log).phase = "await"
          /\ BusyBit(LastOf(log).val) = 0
          /\ \E j \in 1..(Len(log) - 1) : log[j].op = "write" /\ log[j].ok
          /\ Decodes(LastOf(log).val, cmdRes)
    /\ (InCmd \/ pc = "ret") /\ log # <<>> /\ LastOf(log).op = "read"
          /\ LastOf(log).ok /\ BusyBit(LastOf(log).val) = 1
       => cmdRes = None /\ pc = LastOf(log).phase

\* cmd returned success after its await loop had read a busy register
C1_Witness ==
    /\ pc = "ret" /\ cmdRes.tag = "Ok"
    /\ BusyReads("await") >= 1
    /\ args.command = 255

\* C2: the await loop reads as long as the register is busy and stops at
\* the first read that finds it idle: every await read but the last found
\* bit 63 set, the read that found it clear is the last access of the call,
\* the call has then returned, its result is decoded from that read, and
\* after n busy reads that makes n + 1 reads.
C2_AwaitStopsAtFirstIdleRead ==
    LET aw == AwaitReads
    IN  /\ \A i \in 1..(Len(aw) - 1) : aw[i].ok /\ BusyBit(aw[i].val) = 1
        /\ pc = "await" =>
              \A i \in 1..Len(aw) : aw[i].ok /\ BusyBit(aw[i].val) = 1
        /\ (aw # <<>> /\ LastOf(aw).ok /\ BusyBit(LastOf(aw).val) = 0) =>
              /\ pc = "ret"
              /\ LastOf(log) = LastOf(aw)
              /\ Decodes(LastOf(aw).val, cmdRes)
              /\ (\A i \in 1..Len(aw) : ~aw[i].more) =>
                    Len(aw) = BusyReads("await") + 1

\* the reads were busy, busy, idle with status 0 and data X, and cmd
\* returned X after exactly these three reads
C2_Witness ==
    LET aw == AwaitReads
    IN  /\ pc = "ret"
        /\ Len(aw) = 3
        /\ \A i \in 1..3 : aw[i].ok /\ ~aw[i].more
        /\ BusyBit(aw[1].val) = 1 /\ BusyBit(aw[2].val) = 1
        /\ BusyBit(aw[3].val) = 0 /\ StatusByte(aw[3].val) = 0
        /\ cmdRes = Ok(Low32(aw[3].val))
        /\ Low32(aw[3].val) = MkU32(120, 86, 52, 18)

\* the decimal digits, for reading a number back from a text
DecChars == <<"0", "1", "2", "3", "4", "5", "6", "7", "8", "9">>

DigitValue(ch) == (CHOOSE i \in 1..10 : DecChars[i] = ch) - 1

RECURSIVE ParseDec(_)
ParseDec(t) == IF t = <<>> THEN 0
               ELSE 10 * ParseDec(SubSeq(t, 1, Len(t) - 1)) + DigitValue(LastOf(t))

\* t is the decimal numeral of n, without leading zeros
IsNumeralOf(t, n) ==
    /\ t # <<>>
    /\ \A i \in 1..Len(t) : \E k \in 1..10 : DecChars[k] = t[i]
    /\ Len(t) > 1 => t[1] # "0"
    /\ ParseDec(t) = n

\* the read that ended the await loop of the call that has returned
AwaitIdle == pc = "ret" /\ AwaitReads # <<>> /\ LastOf(AwaitReads).ok
             /\ BusyBit(LastOf(AwaitReads).val) = 0

\* C3: a response with status byte 1 makes cmd fail with "Overclocking is
\* locked", status byte 0x1f with "Unrecognized command", every other
\* nonzero status byte with an error that carries the byte as a number; no
\* nonzero status byte gives success.
C3_StatusDecoding ==
    AwaitIdle /\ StatusByte(LastOf(AwaitReads).val) # 0 =>
        LET st == StatusByte(LastOf(AwaitReads).val)
        IN  /\ cmdRes.tag = "Err"
            /\ cmdRes.err.repr = "Custom"
            /\ cmdRes.err.kind = "Other"
            /\ Len(cmdRes.err.text) >= 2
            /\ cmdRes.err.text[1] = "Mailbox returned error: "
            /\ st = 1 => Tail(cmdRes.err.text) = <<"Overclocking is locked">>
            /\ st = 31 => Tail(cmdRes.err.text) = <<"Unrecognized command">>
            /\ st \notin {1, 31} => IsNumeralOf(Tail(cmdRes.err.text), st)

\* cmd failed on status byte 30, the neighbour of 0x1f, with the number
C3_Witness ==
    /\ AwaitIdle
    /\ StatusByte(LastOf(AwaitReads).val) = 30
    /\ cmdRes.tag = "Err"
    /\ Tail(cmdRes.err.text) = <<"3", "0">>

\* C4: a response with status byte 0 makes cmd return success with the low
\* 32 bits of the word, whatever bits 40-62 hold.
C4_SuccessDecoding ==
    AwaitIdle /\ StatusByte(LastOf(AwaitReads).val) = 0 =>
        cmdRes = Ok(Low32(LastOf(AwaitReads).val))

\* cmd returned the data of a response whose bits 40-62 were not zero
C4_Witness ==
    /\ AwaitIdle
    /\ StatusByte(LastOf(AwaitReads).val) = 0
    /\ LastOf(AwaitReads).val[5] = 171
    /\ LastOf(AwaitReads).val[6] = 205
    /\ LastOf(AwaitReads).val[7] = 127
    /\ cmdRes = Ok(MkU32(255, 255, 255, 255))

\* C5: the word cmd writes holds data in bits 0-31, command in bits 32-39,
\* param1 in bits 40-47, param2 in bits 48-55, 1 in bit 63 and 0 in bits
\* 56-62, so each argument is read back from its field unchanged.
C5_EncodingRoundTrip ==
    /\ pc = "await" => Len(wrote) = 1
    /\ \A i \in 1..Len(wrote) :
          /\ Low32(wrote[i]) = args.data
          /\ wrote[i][4] = args.command
          /\ wrote[i][5] = args.param1
          /\ wrote[i][6] = args.param2
          /\ wrote[i][7] = 128

\* a word was written for command 255, param1 85, param2 0 and mixed data
C5_Witness ==
    /\ pc = "await"
    /\ args = [command |-> 255, param1 |-> 85, param2 |-> 0,
               data |-> MkU32(120, 86, 52, 18)]
    /\ Mbox = wrote[1]
    /\ RegBytes(Mbox) = <<120, 86, 52, 18, 255, 85, 0, 128>>

\* the request word for arguments a, by the documented layout
RequestWord(a) ==
    [i \in 0..7 |-> IF i <= 3 THEN a.data[i]
                    ELSE IF i = 4 THEN a.command
                    ELSE IF i = 5 THEN a.param1
                    ELSE IF i = 6 THEN a.param2
                    ELSE 128]

\* C6: nothing between the drain and the write looks at the register again:
\* the step cmd takes after the drain is the write of its request, over
\* whatever the register holds by then, also a request the other agent has
\* written meanwhile and that is still pending (or the write fails with an
\* I/O error and changes nothing); a call that has overwritten such a
\* request goes on to its await loop and returns like any other call.
C6_WriteUnguarded ==
    [][/\ (pc = "write" /\ pc' # "write") =>
             \/ pc' = "ret" /\ IsIoError(cmdRes') /\ dev' = dev
             \/ /\ pc' = "await"
                /\ cmdRes' = None
                /\ Mbox' = RequestWord(args)
                /\ (mboxInfo.who = "other" /\ BusyBit(Mbox) = 1) => clobbered'
       /\ clobbered' =>
             /\ pc' \in {"await", "ret"}
             /\ pc' = "ret" => \/ IsIoError(cmdRes')
                               \/ AwaitIdle' /\ Decodes(LastOf(AwaitReads').val, cmdRes')
      ]_vars

\* the drain read the register idle, the other agent wrote its request,
\* cmd wrote over it while it was pending, and cmd returned success
C6_Witness ==
    /\ clobbered
    /\ pc = "ret"
    /\ cmdRes.tag = "Ok"
    /\ log[1].phase = "drain" /\ BusyBit(log[1].val) = 0
    /\ log[2].op = "write" /\ log[2].ok

\* the loop in progress has read the register busy more often than the
\* log keeps
LongBusy == pc \in {"drain", "await"} /\ log # <<>>
            /\ LastOf(log).phase = pc /\ LastOf(log).more

\* C7: the polling loops have no bound and no timeout: however often a
\* loop has found the register busy, a step of cmd taken while the register
\* is busy either stays in the loop with nothing returned or is a failed
\* read that returns its I/O error; so cmd cannot return while every read
\* succeeds and finds bit 63 set.
C7_UnboundedPolling ==
    [][(pc \in {"drain", "await"} /\ BusyBit(Mbox) = 1 /\ dev' = dev) =>
          \/ pc' = pc /\ cmdRes' = None
          \/ pc' = "ret" /\ IsIoError(cmdRes')]_vars

\* the await loop has read the register busy more often than the log
\* keeps, and is still polling
C7_Witness ==
    /\ LongBusy
    /\ pc = "await"
    /\ cmdRes = None
    /\ BusyBit(Mbox) = 1
    /\ BusyReads("await") = MaxPolls

\* C8: a register access of cmd that fails is the last access of the call,
\* and the call returns the error of that access: after a failed drain read
\* nothing has been written, after a failed write the register is as it
\* was and no await read is made; and cmd returns an I/O error only so.
C8_IoFailureAborts ==
    /\ \A i \in 1..Len(log) : ~log[i].ok => i = Len(log)
    /\ (log # <<>> /\ ~LastOf(log).ok) =>
          /\ pc = "ret"
          /\ IsIoError(cmdRes)
          /\ cmdRes = LastOf(log).err
          /\ LastOf(log).phase \in {"drain", "write"} =>
                /\ wrote = <<>>
                /\ \A i \in 1..Len(log) : log[i].phase # "await"
          /\ LastOf(log).phase = "drain" =>
                \A i \in 1..Len(log) : log[i].op = "read"
    /\ (pc = "ret" /\ IsIoError(cmdRes)) => log # <<>> /\ ~LastOf(log).ok

\* the drain read the register idle, the write failed short, and cmd
\* returned that error without a further access
C8_Witness ==
    /\ pc = "ret"
    /\ Len(log) = 2
    /\ log[1].op = "read" /\ log[1].ok
    /\ log[2].op = "write" /\ ~log[2].ok
    /\ cmdRes = Err(SimpleError("WriteZero"))
    /\ wrote = <<>>

\* the request word of the read command for domain k, by the documented
\* layout: 2^63 + 0x10 * 2^32 + k * 2^40
DomainRequest(k) ==
    [i \in 0..7 |-> IF i = 4 THEN 16 ELSE IF i = 5 THEN k
                    ELSE IF i = 7 THEN 128 ELSE 0]

\* the hex digits, for reading a number back from a text
HexChars == <<"0", "1", "2", "3", "4", "5", "6", "7",
              "8", "9", "a", "b", "c", "d", "e", "f">>

HexValue(ch) == (CHOOSE i \in 1..16 : HexChars[i] = ch) - 1

\* line is "domain k: xxxxxxxx" with xxxxxxxx the eight hex digits of d
IsDomainLine(line, k, d) ==
    /\ Len(line) = 11
    /\ line[1] = "domain " /\ line[2] = DecChars[k + 1] /\ line[3] = ": "
    /\ \A j \in 4..11 : \E i \in 1..16 : HexChars[i] = line[j]
    /\ \A j \in 0..3 :
          16 * HexValue(line[10 - 2 * j]) + HexValue(line[11 - 2 * j]) = d[j]

\* what holds of the words written and the lines printed so far
SequenceSoFar ==
    /\ Len(wrote) <= 5
    /\ \A i \in 1..Len(wrote) : wrote[i] = DomainRequest(i - 1)
    /\ Len(out) <= 6
    /\ \A i \in 2..Len(out) : out[i][1] = "domain " /\ out[i][2] = DecChars[i - 1]
    /\ Len(wrote) <= Len(out)
    /\ wrote # <<>> => Len(out) <= Len(wrote) + 1
    /\ (pc = "exit" /\ result.tag = "Ok") => Len(wrote) = 5 /\ Len(out) = 6

\* C9: the words written to the mailbox register are, in this order, the
\* requests of the read command for domains 0,1,2,3,4; the domain lines are
\* printed in the same order, each when the exchange of its domain has
\* returned success and carrying the data decoded from the last read of
\* that exchange; the request of the next domain is written only after the
\* line of the one before; a run that ends without failure has written
\* five words and printed the status line and five domain lines.
C9_FixedCommandSequence ==
    [][/\ SequenceSoFar'
       /\ out' # out =>
             /\ out' = Append(out, LastOf(out'))
             /\ out # <<>> =>
                   /\ pc = "ret" /\ cmdRes.tag = "Ok"
                   /\ Len(wrote) = Len(out)
                   /\ LastOf(log).phase = "await"
                   /\ cmdRes.val = Low32(LastOf(log).val)
                   /\ IsDomainLine(LastOf(out'), Len(out) - 1, cmdRes.val)
       /\ wrote' # wrote => wrote' = Append(wrote, LastOf(wrote')) /\ pc = "write"
       /\ (pc # "drain" /\ pc' = "drain") =>
             /\ Len(wrote') = idx' - 1 /\ Len(out') = idx'
             /\ args' = CmdArgs(domains[idx']) /\ log' = <<>>
      ]_vars

\* the run ended without failure after five exchanges, the first of which
\* returned 0x12345678 and the last 0xffffffff
C9_Witness ==
    /\ pc = "exit" /\ result = Ok(Unit)
    /\ Len(wrote) = 5
    /\ RegBytes(wrote[3]) = <<0, 0, 0, 0, 16, 2, 0, 128>>
    /\ Len(out) = 6
    /\ out[2] = <<"domain ", "0", ": ", "1", "2", "3", "4", "5", "6", "7", "8">>
    /\ out[6] = <<"domain ", "4", ": ", "f", "f", "f", "f", "f", "f", "f", "f">>

\* the run has ended with the failure of a mailbox exchange
ExchangeFailed == pc = "exit" /\ result.tag = "Err" /\ ocmbox.st = "closed"

\* C10: when the exchange of a domain fails (I/O error or nonzero status)
\* main returns that error at once: nothing is printed for this domain,
\* the lines of the status and of the domains before it stay, no request
\* of a later domain has been or will be written, and the exit status is
\* not zero.
C10_AbortOnFirstFailure ==
    [][/\ (pc = "ret" /\ cmdRes.tag = "Err" /\ pc' # pc) =>
             /\ pc' = "exit"
             /\ result' = cmdRes
             /\ out' = out /\ wrote' = wrote
       /\ ExchangeFailed' =>
             /\ ExitCode(result') # 0
             /\ idx' \in 1..5
             /\ Len(out') = idx'
             /\ Len(wrote') <= idx'
             /\ \A i \in 1..Len(wrote') : wrote'[i] = DomainRequest(i - 1)
       /\ SubSeq(out', 1, Len(out)) = out
       /\ pc = "exit" => pc' = "exit" /\ out' = out /\ wrote' = wrote /\ dev' = dev
      ]_vars

\* the exchange of domain 2 failed with a mailbox status after the lines
\* of domains 0 and 1 had been printed
C10_Witness ==
    /\ ExchangeFailed
    /\ result.err.repr = "Custom"
    /\ idx = 3
    /\ Len(out) = 3
    /\ Len(wrote) = 3

(***************************************************************************)
(* The flex-ratio step alone, for register values of every shape: the      *)
(* handle on FLEX_RATIO has just been opened.                              *)
(***************************************************************************)
\* !x on u64
BitNot(x) == [i \in 0..7 |-> 255 - x[i]]

\* register values over the bit positions in N: one bit set, one bit clear,
\* bit 20 and one more bit set, bit 20 and one more bit clear
FlexInputs(N) ==
    {Shl(OneU64, n) : n \in N}
    \cup {BitNot(Shl(OneU64, n)) : n \in N}
    \cup {BitOr(Shl(OneU64, 20), Shl(OneU64, n)) : n \in N}
    \cup {BitNot(BitOr(Shl(OneU64, 20), Shl(OneU64, n))) : n \in N}
    \cup {ZeroU64, AllOnesU64}

InitFlex ==
    /\ pc = "read_flex"
    /\ \E flex \in FlexInputs(0..63) : dev = InitDev(ZeroU64, flex)
    /\ flexMsr = MsrWithCpu(0, FLEX_RATIO)
    /\ ocmbox = NoMsr
    /\ idx = 1
    /\ args = NoArgs
    /\ cmdRes = None
    /\ result = None
    /\ out = <<>>
    /\ log = <<>>
    /\ wrote = <<>>
    /\ otherLeft = MaxOther
    /\ mboxInfo = [who |-> "init", req |-> ZeroU64, from |-> "init"]
    /\ clobbered = FALSE

NextFlex == \E io \in IoOutcomes : ReadFlex(io)

SpecFlex == InitFlex /\ [][NextFlex]_vars

\* bit 20 of a register value, read off its digits: bit 4 of digit 2
LockBit(w) == (w[2] \div 16) % 2

\* C11: the status line says true exactly when bit 20 of the value in the
\* flex-ratio register is set, whatever the other 63 bits are.
C11_LockBitExtraction ==
    out # <<>> =>
        /\ Len(out) = 1
        /\ out[1] = <<"Overclocking lock: ",
                      IF LockBit(dev[0][FLEX_RATIO]) = 1 THEN "true" ELSE "false">>

\* every bit but bit 20 is set and the line says false
C11_Witness ==
    /\ dev[0][FLEX_RATIO] = [i \in 0..7 |-> IF i = 2 THEN 239 ELSE 255]
    /\ out = << <<"Overclocking lock: ", "false">> >>

\* the run has ended and no register file was ever opened
EndedBeforeOpen ==
    /\ pc = "exit"
    /\ flexMsr = NoMsr /\ ocmbox = NoMsr

\* nothing was read, written or printed
NothingDone == out = <<>> /\ wrote = <<>> /\ log = <<>>

\* C12: when modprobe cannot be started, exits with a status other than 0
\* or is killed by a signal, the step of main that ran it ends the run with
\* an error and a non-zero exit status: no register file has been opened,
\* the registers are as they were, nothing was read or written and nothing
\* was printed.  A run that ended with the loader's error has done none of
\* these things.
C12_ModprobeFailureIsFatal ==
    [][/\ pc = "modprobe" =>
             \A o \in {"spawn_err", "exit1", "signal"} :
                /\ ENABLED Modprobe(o)
                /\ ~ENABLED (/\ Modprobe(o)
                             /\ ~(/\ EndedBeforeOpen' /\ NothingDone'
                                  /\ result'.tag = "Err"
                                  /\ ExitCode(result') # 0
                                  /\ dev' = dev))
       /\ (pc = "modprobe" /\ pc' = "exit") =>
             /\ EndedBeforeOpen' /\ NothingDone'
             /\ result'.tag = "Err" /\ ExitCode(result') # 0
             /\ dev' = dev
       /\ (pc = "modprobe" /\ pc' # "exit") => pc' \in {"modprobe", "open_flex"}
       /\ (flexMsr' # NoMsr \/ ocmbox' # NoMsr \/ ~NothingDone') =>
             pc \notin {"modprobe", "exit"}
      ]_vars

\* modprobe exited with status 1 and the run ended there
C12_Witness ==
    /\ EndedBeforeOpen /\ NothingDone
    /\ result = Err(CustomError("Other", <<"modprobe exited with status: ",
                                           "exit status: ", "1">>))

\* the error main returns when the module loader failed
IsLoaderError(r) ==
    /\ r.tag = "Err"
    /\ \/ r.err = OsError("spawn")
       \/ /\ r.err.repr = "Custom"
          /\ r.err.text[1] = "modprobe exited with status: "
          /\ r.err.text # <<"modprobe exited with status: ", "exit status: ", "0">>

\* standard output holds the status line and the five domain lines
SixLines ==
    /\ Len(out) = 6
    /\ out[1][1] = "Overclocking lock: " /\ out[1][2] \in {"true", "false"}
    /\ \A i \in 2..6 :
          /\ Len(out[i]) = 11
          /\ out[i][1] = "domain " /\ out[i][2] = DecChars[i - 1] /\ out[i][3] = ": "
          /\ \A j \in 4..11 : \E k \in 1..16 : HexChars[k] = out[i][j]

\* every access of the cmd call in progress succeeded and its last read
\* found the register idle with status 0
ExchangeClean ==
    /\ log # <<>>
    /\ \A i \in 1..Len(log) : log[i].ok
    /\ LastOf(log).op = "read" /\ LastOf(log).phase = "await"
    /\ BusyBit(LastOf(log).val) = 0 /\ StatusByte(LastOf(log).val) = 0

MkU64(b) == [i \in 0..7 |-> b[i + 1]]

\* the values written
MsrValues == {ZeroU64, AllOnesU64, MkU64(<<1, 2, 3, 4, 5, 6, 7, 8>>),
              Msg(16, 4, 0, ZeroU32)}

\* the handles tried: (cpu, num)
MsrHandles == {<<0, OC_MBOX>>, <<0, FLEX_RATIO>>, <<1, OC_MBOX>>}

InitMsr ==
    /\ pc = "msr"
    /\ \E mbox \in {ZeroU64, MkU64(<<8, 7, 6, 5, 4, 3, 2, 1>>)},
          flex \in {FLEX_RATIO_OC_LOCK, AllOnesU64} :
          dev = InitDev(mbox, flex)
    /\ flexMsr = NoMsr
    /\ \E b \in MsrHandles : ocmbox = MsrWithCpu(b[1], b[2])
    /\ idx = 1
    /\ args = NoArgs
    /\ cmdRes = None
    /\ result = None
    /\ out = <<>>
    /\ log = <<>>
    /\ wrote = <<>>
    /\ otherLeft = MaxOther
    /\ mboxInfo = [who |-> "init", req |-> ZeroU64, from |-> "init"]
    /\ clobbered = FALSE

\* a call of Msr::read
MsrReadCall(io) ==
    /\ pc = "msr"
    /\ LET r == MsrRead(ocmbox, dev, io)
       IN  /\ ocmbox' = r.h
           /\ cmdRes' = r.res
           /\ log' = <<[op |-> "read", phase |-> "msr", ok |-> r.res.tag = "Ok",
                        val |-> ZeroU64, more |-> FALSE, err |-> None]>>
    /\ UNCHANGED <<pc, dev, flexMsr, idx, args, result, out, wrote, otherLeft,
                   mboxInfo, clobbered>>

\* a call of Msr::write
MsrWriteCall(value, io) ==
    /\ pc = "msr"
    /\ LET w == MsrWrite(ocmbox, dev, value, io)
       IN  /\ ocmbox' = w.h
           /\ dev' = w.d
           /\ cmdRes' = w.res
           /\ log' = <<[op |-> "write", phase |-> "msr", ok |-> w.res.tag = "Ok",
                        val |-> value, more |-> FALSE, err |-> None]>>
    /\ UNCHANGED <<pc, flexMsr, idx, args, result, out, wrote, otherLeft,
                   mboxInfo, clobbered>>

NextMsr ==
    \/ \E io \in IoOutcomes : MsrReadCall(io)
    \/ \E value \in MsrValues, io \in IoOutcomes : MsrWriteCall(value, io)

SpecMsr == InitMsr /\ [][NextMsr]_vars

\* the device differs between the two states at most in register num of cpu
OnlyRegChanges(cpu, num) ==
    \A c \in Cpus : \A r \in Regs :
        (c # cpu \/ r # num) => dev'[c][r] = dev[c][r]

\* C14: whatever calls came before on the handle and wherever they left
\* the file position, a call of read or write keeps the handle bound to its
\* register and touches no other offset; a read that succeeds returns the
\* value whose little-endian bytes the bound register holds and changes
\* nothing; a write that succeeds leaves the little-endian bytes of its
\* value in the bound register, a write that fails leaves the device as it
\* was; each successful call leaves the position 8 bytes past the register;
\* a read that follows a successful write of v returns v.
C14_AccessorAddressing ==
    [][LET cpu == ocmbox.cpu
           num == ocmbox.num
           call == log'[1]
       IN  /\ ocmbox'.cpu = cpu /\ ocmbox'.num = num
           /\ OnlyRegChanges(cpu, num)
           /\ ocmbox'.pos \in {ocmbox.pos, num, num + 8}
           /\ call.ok <=> cmdRes'.tag = "Ok"
           /\ call.ok => ocmbox'.pos = num + 8
           /\ (call.op = "read" /\ call.ok) =>
                 /\ dev' = dev
                 /\ \A i \in 0..7 : cmdRes'.val[i] = dev[cpu][num][i]
                 /\ (log # <<>> /\ log[1].op = "write" /\ log[1].ok) =>
                       cmdRes'.val = log[1].val
           /\ call.op = "read" => dev' = dev
           /\ (call.op = "write" /\ call.ok) =>
                 \A i \in 0..7 : dev'[cpu][num][i] = call.val[i]
           /\ (call.op = "write" /\ ~call.ok) => dev' = dev
      ]_vars

\* a read on the FLEX_RATIO handle returned the value an earlier write had
\* stored, the offset after the register still holding what it held
C14_Witness ==
    /\ ocmbox.num = FLEX_RATIO /\ ocmbox.pos = FLEX_RATIO + 8
    /\ log # <<>> /\ log[1].op = "read" /\ log[1].ok
    /\ cmdRes = Ok(MkU64(<<1, 2, 3, 4, 5, 6, 7, 8>>))
    /\ dev[0][FLEX_RATIO + 8] = Neighbour

\* what cmd can return when a seek, a read or a write of the register fails
IoFailures == {Err(OsError("seek")), Err(OsError("read")), Err(OsError("write")),
               Err(SimpleError("UnexpectedEof")), Err(SimpleError("WriteZero"))}

\* the call in progress ended on a read that found the register idle with
\* a nonzero status
EndedOnStatus ==
    /\ log # <<>>
    /\ LastOf(log).op = "read" /\ LastOf(log).ok
    /\ BusyBit(LastOf(log).val) = 0 /\ StatusByte(LastOf(log).val) # 0

\* C15: when cmd returns an error, it is either the error of the register
\* access that failed, one of the operating system's or of read_exact /
\* write_all, or the error made for a nonzero status of a completed
\* exchange, a custom error of kind Other whose text begins "Mailbox
\* returned error: "; the second is never equal to any of the first, and
\* which one cmd returned tells which of the two happened.
C15_StatusFailureDistinct ==
    (pc = "ret" /\ cmdRes.tag = "Err") =>
        /\ EndedOnStatus <=> ~(cmdRes \in IoFailures)
        /\ ~LastOf(log).ok <=> cmdRes \in IoFailures
        /\ EndedOnStatus =>
              /\ LastOf(log).phase = "await"
              /\ cmdRes.err.repr = "Custom"
              /\ cmdRes.err.kind = "Other"
              /\ cmdRes.err.text[1] = "Mailbox returned error: "
        /\ ~LastOf(log).ok => cmdRes = LastOf(log).err /\ IsIoError(cmdRes)

\* the exchange completed with the status "unrecognized command"
C15_Witness ==
    /\ pc = "ret" /\ EndedOnStatus
    /\ StatusByte(LastOf(log).val) = 31
    /\ cmdRes = Err(CustomError("Other", <<"Mailbox returned error: ",
                                           "Unrecognized command">>))
    /\ \E i \in 1..Len(log) : log[i].op = "write" /\ log[i].ok

\* the place of a phase in a call of cmd
PhaseRank(ph) == IF ph = "drain" THEN 1 ELSE IF ph = "write" THEN 2 ELSE 3

\* the positions of the writes in the log of the call in progress
WritesAt == {i \in 1..Len(log) : log[i].op = "write"}

\* C16: the accesses of a call of cmd are reads of the drain loop, then at
\* most one write, then reads of the await loop; the write comes directly
\* after a drain read that succeeded and found bit 63 clear, every drain
\* read before that one found it set; an await read is made only after a
\* write that succeeded; a call that returns a response has made exactly
\* one write.
C16_StepOrder ==
    /\ \A i \in 1..Len(log) : \A j \in i..Len(log) :
          PhaseRank(log[i].phase) <= PhaseRank(log[j].phase)
    /\ \A i \in 1..Len(log) :
          /\ log[i].op = "write" <=> log[i].phase = "write"
          /\ log[i].phase \in {"drain", "write", "await"}
    /\ Cardinality(WritesAt) <= 1
    /\ Len(wrote) = Cardinality({i \in WritesAt : log[i].ok})
    /\ \A i \in WritesAt :
          /\ i >= 2
          /\ log[i - 1].phase = "drain" /\ log[i - 1].ok
          /\ BusyBit(log[i - 1].val) = 0
          /\ \A k \in 1..(i - 2) : log[k].ok /\ BusyBit(log[k].val) = 1
    /\ \A i \in 1..Len(log) :
          log[i].phase = "await" => (i >= 3 /\ log[i - 1].ok
                                     /\ log[i - 1].phase \in {"write", "await"})
    /\ pc = "write" => (WritesAt = {} /\ log # <<>> /\ LastOf(log).phase = "drain")
    /\ pc = "await" => (WritesAt # {} /\ Len(wrote) = 1)
    /\ (pc = "ret" /\ IsResponse(cmdRes)) => Len(wrote) = 1

\* drain read busy, drain read idle, write, await read busy, await read
\* idle, and cmd returned the response
C16_Witness ==
    /\ pc = "ret" /\ IsResponse(cmdRes)
    /\ Len(log) = 5
    /\ log[1].phase = "drain" /\ BusyBit(log[1].val) = 1
    /\ log[2].phase = "drain" /\ BusyBit(log[2].val) = 0
    /\ log[3].op = "write" /\ log[3].ok
    /\ log[4].phase = "await" /\ BusyBit(log[4].val) = 1
    /\ log[5].phase = "await" /\ BusyBit(log[5].val) = 0

\* the reads of the first poll_result of the call in progress
DrainReads == SelectSeq(log, LAMBDA e : e.phase = "drain")

\* the drain loop ended on a read that found the register idle
DrainedIdle ==
    /\ DrainReads # <<>>
    /\ LastOf(DrainReads).ok /\ BusyBit(LastOf(DrainReads).val) = 0

\* C17: when a drain read finds bit 63 clear, cmd goes on to the write
\* whatever status byte that word carries, and it has returned nothing by
\* then; when cmd returns a response, it is decoded from the last word read
\* in the await loop and from nothing else; cmd returns without having
\* tried the write only when a drain read failed, and then with that
\* read's error.
C17_DrainDiscardsLeftover ==
    /\ pc \in {"drain", "write"} => cmdRes = None
    /\ DrainedIdle =>
          /\ pc \in {"write", "await", "ret"}
          /\ pc \in {"await", "ret"} => WritesAt # {}
    /\ (pc = "ret" /\ IsResponse(cmdRes)) =>
          /\ DrainedIdle
          /\ AwaitReads # <<>>
          /\ Decodes(LastOf(AwaitReads).val, cmdRes)
    /\ (pc = "ret" /\ WritesAt = {}) =>
          /\ ~DrainedIdle
          /\ LastOf(log).phase = "drain" /\ ~LastOf(log).ok
          /\ cmdRes = LastOf(log).err /\ IsIoError(cmdRes)

\* the drain read a leftover "unrecognized command" response, and cmd
\* returned the data of the response to its own request
C17_Witness ==
    /\ pc = "ret" /\ cmdRes = Ok(MkU32(120, 86, 52, 18))
    /\ DrainedIdle
    /\ StatusByte(LastOf(DrainReads).val) = 31

\* main has not got past the flex-ratio step
BeforeMailbox == pc \in {"modprobe", "open_flex", "read_flex"}

\* C18: the handle on register 0x194 of CPU 0 is used by one step only,
\* the lock-status step, which is taken once, makes one 8-byte read and is
\* over before the mailbox handle exists; every later access goes through
\* the mailbox handle, which is bound to register 0x150 of CPU 0; no
\* register of another CPU and no register but 0x150 of CPU 0 ever changes,
\* and 0x150 changes only by the write of cmd or by the hardware's answer.
C18_RegisterFootprint ==
    [][/\ flexMsr' # NoMsr =>
             /\ flexMsr'.cpu = 0 /\ flexMsr'.num = FLEX_RATIO
             /\ flexMsr'.pos \in {0, FLEX_RATIO, FLEX_RATIO + 8}
       /\ ocmbox' # NoMsr =>
             /\ ocmbox'.cpu = 0 /\ ocmbox'.num = OC_MBOX
             /\ ocmbox'.pos \in {0, OC_MBOX, OC_MBOX + 8}
       /\ OnlyRegChanges(0, OC_MBOX)
       /\ dev' # dev =>
             \/ pc = "write" /\ pc' = "await" /\ Mbox' = LastOf(wrote')
             \/ /\ BusyBit(Mbox) = 1 /\ BusyBit(Mbox') = 0
                /\ UNCHANGED progVars
       /\ flexMsr' # flexMsr => pc \in {"open_flex", "read_flex"}
       /\ (pc = "read_flex" /\ pc' # pc) =>
             /\ flexMsr.st = "open" /\ flexMsr'.st = "closed"
             /\ dev' = dev
             /\ pc' = "open_mbox" => flexMsr'.pos = FLEX_RATIO + 8
       /\ (pc' = "read_flex" /\ pc # pc') => pc = "open_flex"
       /\ (pc' = "open_flex" /\ pc # pc') => pc = "modprobe"
       /\ pc' # "modprobe" \/ pc = "modprobe"
       /\ BeforeMailbox' =>
             /\ ocmbox' = NoMsr /\ log' = <<>> /\ wrote' = <<>>
             /\ dev' = dev
       /\ ~BeforeMailbox' => flexMsr'.st \in {"none", "closed"}
       /\ (log' # log /\ log' # <<>>) =>
             /\ pc \in {"drain", "write", "await"}
             /\ ocmbox.st = "open" /\ flexMsr.st = "closed"
       /\ ocmbox' # ocmbox =>
             pc \in {"open_mbox", "loop", "drain", "write", "await", "ret"}
      ]_vars

\* the run is over: one read of 0x194, five exchanges on 0x150, and the
\* other registers hold what they held
C18_Witness ==
    /\ pc = "exit" /\ result.tag = "Ok"
    /\ flexMsr = [st |-> "closed", cpu |-> 0, num |-> FLEX_RATIO,
                  pos |-> FLEX_RATIO + 8]
    /\ ocmbox = [st |-> "closed", cpu |-> 0, num |-> OC_MBOX,
                 pos |-> OC_MBOX + 8]
    /\ Len(wrote) = 5
    /\ dev[0][FLEX_RATIO] = [i \in 0..7 |-> IF i = 2 THEN 16 ELSE 0]
    /\ dev[0][FLEX_RATIO + 8] = Neighbour
    /\ dev[1][OC_MBOX] = Neighbour

(***************************************************************************)
(* The whole run when no other agent uses the mailbox, every open and      *)
(* every register access succeeds, the program keeps running and the       *)
(* hardware answers every pending request in the end.                      *)
(***************************************************************************)
\* the mailbox register holds a request still pending or a leftover error
\* response, the flex-ratio register has the lock bit set
InitLive ==
    /\ pc = "modprobe"
    /\ \E mbox \in {Msg(16, 0, 0, ZeroU32), Resp(1, ZeroU32, <<0, 0, 0>>)} :
          dev = InitDev(mbox, FLEX_RATIO_OC_LOCK)
    /\ flexMsr = NoMsr
    /\ ocmbox = NoMsr
    /\ idx = 1
    /\ args = NoArgs
    /\ cmdRes = None
    /\ result = None
    /\ out = <<>>
    /\ log = <<>>
    /\ wrote = <<>>
    /\ otherLeft = MaxOther
    /\ mboxInfo = [who |-> "init", req |-> ZeroU64, from |-> "init"]
    /\ clobbered = FALSE

\* the steps of the program
ProgLive ==
    \/ \E o \in ModprobeOutcomes : Modprobe(o)
    \/ OpenFlex(TRUE)
    \/ ReadFlex("ok")
    \/ OpenMbox(TRUE)
    \/ LoopHead
    \/ Poll("ok")
    \/ WriteMsg("ok")
    \/ CmdReturn

NextLive ==
    \/ ProgLive
    \/ HwRespond(RunStatuses)

\* the process is scheduled as long as it has a step that changes anything
\* (a read that finds the register as busy as the read before changes
\* nothing), and the hardware does not leave a request pending for ever
SpecLive ==
    /\ InitLive
    /\ [][NextLive]_vars
    /\ WF_vars(ProgLive)
    /\ WF_vars(HwRespond(RunStatuses))

\* the call of cmd has returned the hardware's answer to the word it wrote
AnswerToOwnRequest ==
    /\ IsResponse(cmdRes)
    /\ wrote # <<>>
    /\ LastOf(wrote) = RequestWord(args)
    /\ mboxInfo.who = "hw" /\ mboxInfo.from = "self"
    /\ mboxInfo.req = LastOf(wrote)
    /\ BusyBit(Mbox) = 0
    /\ Decodes(Mbox, cmdRes)

\* C19: with no other agent, no failing I/O and a hardware that answers in
\* the end, every call of cmd returns; what it returns is the decoding of
\* the word the hardware put into the register in answer to the request
\* word this call wrote; the run ends; and at most five request words are
\* ever written.
C19_TerminationWithoutInterference ==
    /\ [](InCmd => <>(pc = "ret"))
    /\ <>(pc = "exit")
    /\ [](pc = "ret" => AnswerToOwnRequest)
    /\ [](Len(wrote) <= 5 /\ ~clobbered)

\* the call for the last domain has returned the answer to its request
\* after polling a busy register more often than the log keeps
C19_Witness ==
    /\ pc = "ret" /\ idx = 5
    /\ AnswerToOwnRequest
    /\ cmdRes.tag = "Ok"
    /\ Len(wrote) = 5
    /\ \E i \in 1..Len(log) : log[i].phase = "await" /\ log[i].more

\* the status line for a register value, by bit 20 of the value
StatusLineOf(w) ==
    <<"Overclocking lock: ", IF LockBit(w) = 1 THEN "true" ELSE "false">>

\* C20: the value read from register 0x194 goes into the status line and
\* nowhere else.  Whatever the value, the read that succeeds takes main to
\* the construction of the mailbox client, and the state it leaves differs
\* from one value to another in the status line only; the read fails only
\* with an I/O error; afterwards neither the line nor the register changes,
\* and with the lock bit set as with it clear the client can be
\* constructed, the call for domain 0 made and its request word written.
C20_LockDoesNotGate ==
    [][/\ (pc = "read_flex" /\ pc' # pc) =>
             \/ pc' = "exit" /\ IsIoError(result') /\ out' = out
             \/ /\ pc' = "open_mbox" /\ result' = None
                /\ out' = <<StatusLineOf(dev[0][FLEX_RATIO])>>
                /\ flexMsr' = [st |-> "closed", cpu |-> 0, num |-> FLEX_RATIO,
                               pos |-> FLEX_RATIO + 8]
                /\ UNCHANGED <<dev, ocmbox, idx, args, cmdRes, log, wrote,
                               otherLeft, mboxInfo, clobbered>>
       /\ pc = "read_flex" => ENABLED (ReadFlex("ok") /\ pc' = "open_mbox")
       /\ pc = "open_mbox" => ENABLED (OpenMbox(TRUE) /\ pc' = "loop")
       /\ (pc = "loop" /\ idx = 1) =>
             ENABLED (LoopHead /\ pc' = "drain" /\ args' = CmdArgs("IaCore"))
       /\ (pc = "write" /\ idx = 1) =>
             ENABLED (WriteMsg("ok") /\ wrote' = <<DomainRequest(0)>>)
       /\ out # <<>> =>
             /\ out[1] = StatusLineOf(dev[0][FLEX_RATIO])
             /\ out'[1] = out[1]
             /\ pc # "read_flex"
       /\ dev'[0][FLEX_RATIO] = dev[0][FLEX_RATIO]
      ]_vars

\* the lock is reported set, every other bit of the register being set as
\* well, and the request for domain 0 has been written
C20_Witness ==
    /\ pc = "await" /\ idx = 1
    /\ out = << <<"Overclocking lock: ", "true">> >>
    /\ dev[0][FLEX_RATIO] = AllOnesU64
    /\ wrote = <<DomainRequest(0)>>

====
